---- MODULE Spec2Model ----
(***************************************************************************)
(* Model of the LDAP synchronisation job of cds-ils                        *)
(* (src/cds_ils/ldap/api.py: import_users, update_users, delete_users)     *)
(* and of the literature JSON serializer                                   *)
(* (src/cds_ils/literature/serializers/json.py).                           *)
(*                                                                         *)
(* The database is modelled as four plain tables (users, profiles,         *)
(* identities, remote accounts) seen through one SQLAlchemy session:       *)
(* `db` is what the session sees (persisted rows plus pending changes),    *)
(* `committed` is what db.session.commit() has persisted.  The tables      *)
(* carry no uniqueness constraint of their own: the schema belongs to the  *)
(* host framework and is not part of the sources, so whatever uniqueness   *)
(* the job keeps, it keeps by its own checks.                              *)
(***************************************************************************)
EXTENDS Integers, Sequences, FiniteSets, TLC

\* ---------------------------------------------------------------- bounds

\* Longest LDAP listing explored.
MaxLen == 2
\* Number of job invocations (import_users / update_users / delete_users)
\* in one behaviour.
MaxRuns == 2
\* Longest list of eitems of a literature record explored.
MaxEitems == 2

\* Page requests one call of get_primary_accounts is followed for.
MaxPages == 3

\* ------------------------------------------------------------ LDAP values

\* The "mail" attribute is absent from the LDAP entry.
NoMail == "<absent>"
Mails == {NoMail, "", "a", "B"}
EmployeeIds == {"e1", "e2"}
\* extra_data.get("department") of a remote account without the key.
None == "<none>"

\* The entries the directory may list: each person (employeeID) in one of
\* two revisions of its record, with any of the mail values.
Revisions ==
    { [displayName |-> "n1", department |-> "d1", uidNumber |-> 7],
      [displayName |-> "n2", department |-> "d2", uidNumber |-> 2] }
LdapUsers ==
    { [mail |-> m, displayName |-> r.displayName, department |-> r.department,
       employeeID |-> e, uidNumber |-> r.uidNumber] :
         m \in Mails, e \in EmployeeIds, r \in Revisions }

RECURSIVE SeqsUpTo(_, _)
SeqsUpTo(S, n) ==
    IF n = 0 THEN {<<>>}
    ELSE LET shorter == SeqsUpTo(S, n - 1)
         IN  shorter \cup {Append(s, x) : s \in {t \in shorter : Len(t) = n - 1}, x \in S}

\* The listings the directory may hold.
Listings == SeqsUpTo(LdapUsers, MaxLen)

\* str.lower() on the mail values of the model.
LowerTable == [s \in {"A", "B"} |-> IF s = "A" THEN "a" ELSE "b"]
Lower(s) == IF s \in DOMAIN LowerTable THEN LowerTable[s] ELSE s

\* ldap_user_get(user, field_name) for each field read by the job.
ldap_user_get_displayName(user) == user.displayName
ldap_user_get_department(user) == user.department
ldap_user_get_employeeID(user) == user.employeeID
ldap_user_get_uidNumber(user) == user.uidNumber

ldap_user_get_email(user) == Lower(user.mail)

\* "mail" in ldap_user
has_mail(user) == user.mail # NoMail

\* ---------------------------------------------------------------- tables

EmptyDb == [users |-> <<>>, profiles |-> {}, identities |-> {}, accounts |-> <<>>]

\* User(email=email, active=True); db.session.add(user): the new user id is
\* the next value of the autoincrement key.
add_user(d, email) == [d EXCEPT !.users = Append(@, email)]
new_user_id(d) == Len(d.users) + 1

\* LdapUserImporter.create_invenio_user: the session after add(user).
create_invenio_user(d, ldap_user) == add_user(d, ldap_user_get_email(ldap_user))

create_invenio_user_identity(user_id, ldap_user) ==
    [id |-> ldap_user_get_uidNumber(ldap_user), id_user |-> user_id]

create_invenio_user_profile(user_id, ldap_user) ==
    [user_id |-> user_id, full_name |-> ldap_user_get_displayName(ldap_user)]

create_invenio_remote_account(user_id, ldap_user) ==
    [user_id |-> user_id,
     person_id |-> ldap_user_get_employeeID(ldap_user),
     department |-> ldap_user_get_department(ldap_user)]

\* Mutant of import_user: the profile is not added.
import_user_without_profile(d, ldap_user) ==
    LET user_id == new_user_id(d)
        d1 == create_invenio_user(d, ldap_user)
    IN  [d1 EXCEPT
            !.identities = @ \cup {create_invenio_user_identity(user_id, ldap_user)},
            !.accounts = Append(@, create_invenio_remote_account(user_id, ldap_user))]

\* LdapUserImporter.import_user: the session after the user (committed by
\* create_invenio_user), the identity, the profile and the remote account
\* have been added.
import_user(d, ldap_user) ==
    LET user_id == new_user_id(d)
        d1 == create_invenio_user(d, ldap_user)
    IN  [d1 EXCEPT
            !.identities = @ \cup {create_invenio_user_identity(user_id, ldap_user)},
            !.profiles = @ \cup {create_invenio_user_profile(user_id, ldap_user)},
            !.accounts = Append(@, create_invenio_remote_account(user_id, ldap_user))]

\* Mutant of the email query: only the users that have a remote account
\* are looked at.
email_exists_among_patrons(d, email) ==
    \E i \in 1..Len(d.users) :
        /\ d.users[i] = email
        /\ \E ra \in 1..Len(d.accounts) : d.accounts[ra].user_id = i

\* User.query.filter_by(email=email).count() > 0
email_exists(d, email) == \E i \in 1..Len(d.users) : d.users[i] = email

\* Databases the job may find when it starts: empty, one or two patrons
\* created by an earlier import, a user created outside the job (no
\* profile, identity or remote account), a remote account without a
\* department, a person imported twice.
Joe == [mail |-> "a", displayName |-> "n1", department |-> "d1",
        employeeID |-> "e1", uidNumber |-> 7]
Ann == [mail |-> "b", displayName |-> "n1", department |-> "d2",
        employeeID |-> "e2", uidNumber |-> 2]
InitDbs ==
    { EmptyDb,
      import_user(EmptyDb, Joe),
      import_user(import_user(EmptyDb, Joe), Ann),
      add_user(EmptyDb, "b"),
      import_user(add_user(EmptyDb, "b"), Joe),
      [import_user(EmptyDb, Joe) EXCEPT !.accounts[1].department = None],
      \* import_users run again after Joe's mail changed in the directory
      import_user(import_user(EmptyDb, Joe), [Joe EXCEPT !.mail = "B"]) }


\* ------------------------------------------------- update_users, read side

\* ldap_users_map is a Python dict keyed by employeeID: it keeps insertion
\* order, assigning to a key already present keeps the key's position.
map_has(m, key) == \E i \in 1..Len(m) : m[i].employeeID = key
map_get(m, key) == m[CHOOSE i \in 1..Len(m) : m[i].employeeID = key]
map_put(m, ldap_user) ==
    IF map_has(m, ldap_user.employeeID)
    THEN [i \in 1..Len(m) |->
            IF m[i].employeeID = ldap_user.employeeID THEN ldap_user ELSE m[i]]
    ELSE Append(m, ldap_user)
map_pop(m, key) == SelectSeq(m, LAMBDA u : u.employeeID # key)

\* A line of the job's log: log_func(action, ...) or print(...).
logged(action, ldap_user) == [action |-> action, ldap_user |-> ldap_user]

\* Mutant of the loop body of get_ldap_users: an empty mail is not skipped.
get_ldap_users_step_keeps_empty_mail(acc, ldap_user) ==
    IF ~has_mail(ldap_user)
    THEN [acc EXCEPT !.log = @ \cup {logged("ldap_user_skipped_missing_email", ldap_user)}]
    ELSE IF ldap_user_get_email(ldap_user) \notin acc.emails
         THEN [map |-> map_put(acc.map, ldap_user),
               emails |-> acc.emails \cup {ldap_user_get_email(ldap_user)},
               log |-> acc.log]
         ELSE acc

\* One iteration of the loop of get_ldap_users over acc = [map, emails, log].
get_ldap_users_step(acc, ldap_user) ==
    IF ~has_mail(ldap_user)
    THEN [acc EXCEPT !.log = @ \cup {logged("ldap_user_skipped_missing_email", ldap_user)}]
    ELSE IF ldap_user_get_email(ldap_user) = ""
    THEN [acc EXCEPT !.log = @ \cup {logged("ldap_user_skipped_not_cern_email", ldap_user)}]
    ELSE IF ldap_user_get_email(ldap_user) \notin acc.emails
         THEN [map |-> map_put(acc.map, ldap_user),
               emails |-> acc.emails \cup {ldap_user_get_email(ldap_user)},
               log |-> acc.log]
         ELSE acc

RECURSIVE get_ldap_users_loop(_, _, _)
get_ldap_users_loop(ldap_users, i, acc) ==
    IF i > Len(ldap_users) THEN acc
    ELSE get_ldap_users_loop(ldap_users, i + 1, get_ldap_users_step(acc, ldap_users[i]))

\* get_ldap_users: (ldap_users_count, ldap_users_map, ldap_users_emails).
get_ldap_users(ldap_users) ==
    LET acc == get_ldap_users_loop(ldap_users, 1,
                                   [map |-> <<>>, emails |-> {}, log |-> {}])
    IN  [count |-> Len(ldap_users), map |-> acc.map, emails |-> acc.emails,
         log |-> acc.log]

\* The orders in which RemoteAccount.query.all() may return n rows: the
\* query has no ORDER BY.
Orders(n) == {o \in [1..n -> 1..n] : \A i, j \in 1..n : o[i] = o[j] => i = j}

\* remap_invenio_users, for the rows returned in the given order.
remap_invenio_users(d, order) ==
    [k \in 1..Len(d.accounts) |->
        [remote_account_id |-> order[k],
         remote_account_person_id |-> d.accounts[order[k]].person_id,
         remote_account_department |-> d.accounts[order[k]].department,
         user_id |-> d.accounts[order[k]].user_id]]

\* UserProfile.query.filter_by(user_id=user_id)
profiles_of(d, user_id) == {p \in d.profiles : p.user_id = user_id}
full_name_of(d, user_id) == (CHOOSE p \in profiles_of(d, user_id) : TRUE).full_name

\* has_changed of update_invenio_users_from_ldap
has_changed(d, invenio_user, ldap_user) ==
    \/ ldap_user_get_displayName(ldap_user) # full_name_of(d, invenio_user.user_id)
    \/ ldap_user_get_department(ldap_user) # invenio_user.remote_account_department
    \/ ldap_user_get_email(ldap_user) # d.users[invenio_user.user_id]

\* Mutant of _update_invenio_user: the department is not written.
update_invenio_user_keeps_department(d, invenio_remote_account_id, user_id, ldap_user) ==
    [d EXCEPT
        !.profiles = {IF p.user_id = user_id
                      THEN [p EXCEPT !.full_name = ldap_user_get_displayName(ldap_user)]
                      ELSE p : p \in @},
        !.users[user_id] = ldap_user_get_email(ldap_user)]

\* _update_invenio_user
update_invenio_user(d, invenio_remote_account_id, user_id, ldap_user) ==
    [d EXCEPT
        !.profiles = {IF p.user_id = user_id
                      THEN [p EXCEPT !.full_name = ldap_user_get_displayName(ldap_user)]
                      ELSE p : p \in @},
        !.accounts[invenio_remote_account_id].department =
            ldap_user_get_department(ldap_user),
        !.users[user_id] = ldap_user_get_email(ldap_user)]

\* UserIdentity.query.filter_by(id_user=uid_number).count() > 0
user_identity_exists(d, uid_number) == \E x \in d.identities : x.id_user = uid_number


\* ------------------------------------------- literature JSON serializer

\* dict.get(key, default)
Get(d, key, default) == IF key \in DOMAIN d THEN d[key] ELSE default
EmptyDict == <<>>

\* The eitems a literature record may list: the URL of one needs a login or
\* not.
Eitems == [pid : {"i1", "i2"}, url : {<<"u">>, <<"v">>}, login_required : BOOLEAN]

\* metadata of the parent serializer's output: without eitems, with eitems
\* that have no hits key, with a list of hits.
Metadatas ==
    {[title |-> "t"], [title |-> "t", eitems |-> [total |-> 0]]}
        \cup {[title |-> "t", eitems |-> [total |-> Len(h), hits |-> h]] :
                h \in SeqsUpTo(Eitems, MaxEitems)}

\* What super().transform_record / super().transform_search_hit may return.
ParentOutputs == [pid : {"p"}, metadata : Metadatas, links : {"l"}]

\* format_login_required_urls(eitem): the URL of an eitem that requires a
\* login is rewritten to go through the login page.
format_login_required_urls(eitem) ==
    IF eitem.login_required THEN [eitem EXCEPT !.url = <<"login">> \o @] ELSE eitem

\* literature["metadata"].get("eitems", {}).get("hits", [])
eitems_of(l) == Get(Get(l.metadata, "eitems", EmptyDict), "hits", <<>>)

\* Mutant of the loop body: the helper is given the first eitem every time.
format_first_eitem(l, i) ==
    [l EXCEPT !.metadata.eitems.hits[1] = format_login_required_urls(@)]

\* One iteration of `for eitem in eitems: format_login_required_urls(eitem)`:
\* the helper works on the i-th eitem in place.
format_eitem(l, i) ==
    [l EXCEPT !.metadata.eitems.hits[i] = format_login_required_urls(@)]

\* ------------------------------------------------------------------ state

VARIABLES
    ldap,              \* the listing get_primary_accounts returns
    committed,         \* the persisted tables
    db,                \* the tables as the session sees them
    pc,                \* "idle", "import_users", "updating", "importing", "done", "raised", "aborted"
    op,                \* the job being (last) run
    runs,              \* number of jobs started
    ldap_users,        \* import_users: entries of the listing not yet processed
    imported,          \* import_users: imported
    ldap_users_count,  \* update_users: len(ldap_users)
    ldap_users_map,    \* update_users: ldap_users_map
    invenio_users,     \* update_users: invenio_users not yet processed
    updated_count,     \* update_invenio_users_from_ldap: updated_count
    new_ldap_users,    \* import_new_ldap_users: entries not yet processed
    added_count,       \* import_new_ldap_users: added_count
    ret,               \* what the finished job returned
    log,               \* the skips the running job has logged
    start,             \* history: the tables when the running job started
    kept,              \* history: ldap_users_map as get_ldap_users returned it
    matched,           \* history: (remote account, map entry, has_changed) popped so far
    created,           \* history: (user id, LDAP entry) passed to import_user so far
    commit_log,        \* history: the commits of the running job
    prev,              \* history: the job run before this one and how it ended
    parent,            \* serializer: what the parent serializer returned
    literature,        \* serializer: the representation being transformed
    method,            \* serializer: the method called
    ser_pc,            \* serializer: "idle", "loop", "returned"
    formatted,         \* serializer: number of eitems the loop has visited
    calls,             \* history: the arguments of format_login_required_urls
    gpa_pc,            \* get_primary_accounts: "idle", "search", "result3", "returned"
    page_cookie,       \* get_primary_accounts: page_control.cookie
    result,            \* get_primary_accounts: result
    printed,           \* get_primary_accounts: what it has printed
    sent,              \* history: the cookie of every page request sent
    received           \* history: (rdata, serverctrls) of every response

tables == <<committed, db>>
import_locals == <<ldap_users, imported>>
update_locals == <<ldap_users_count, ldap_users_map, invenio_users, updated_count,
                   new_ldap_users, added_count>>
history == <<start, kept, matched, created, commit_log, prev>>
sync == <<ldap, tables, pc, op, runs, import_locals, update_locals, ret, log, history>>
serializer == <<parent, literature, method, ser_pc, formatted, calls>>
paging == <<gpa_pc, page_cookie, result, printed, sent, received>>
vars == <<sync, serializer, paging>>

NoReturn == <<>>

\* The synchronisation job before its first invocation, for a listing and
\* tables among the given ones.
SyncInit(listings, dbs) ==
    /\ ldap \in listings
    /\ committed \in dbs
    /\ db = committed
    /\ pc = "idle"
    /\ op = "none"
    /\ runs = 0
    /\ ldap_users = <<>>
    /\ imported = 0
    /\ ldap_users_count = 0
    /\ ldap_users_map = <<>>
    /\ invenio_users = <<>>
    /\ updated_count = 0
    /\ new_ldap_users = <<>>
    /\ added_count = 0
    /\ ret = NoReturn
    /\ log = {}
    /\ start = committed
    /\ kept = <<>>
    /\ matched = {}
    /\ created = {}
    /\ commit_log = <<>>
    /\ prev = [op |-> "none", pc |-> "idle"]

\* The serializer before a method is called on one of the given parent outputs.
SerializerInit(outputs) ==
    /\ parent \in outputs
    /\ literature = parent
    /\ method = "none"
    /\ ser_pc = "idle"
    /\ formatted = 0
    /\ calls = <<>>

\* A job is invoked when no job is running.  A behaviour is followed up to
\* its first aborted job.
CanStart == pc \in {"idle", "done", "raised"} /\ runs < MaxRuns

\* What every invocation resets.
Begin(name) ==
    /\ op' = name
    /\ runs' = runs + 1
    /\ start' = db
    /\ matched' = {}
    /\ created' = {}
    /\ commit_log' = <<>>
    /\ prev' = [op |-> op, pc |-> pc]

\* db.session.commit()
commit(phase, left) ==
    /\ committed' = db'
    /\ commit_log' = Append(commit_log, [phase |-> phase, left |-> left])

\* ----------------------------------------------------------- import_users

\* Mutant of the commit of create_invenio_user: the session is flushed, not
\* committed, so nothing more is persisted.
import_user_flushed(d, ldap_user) == committed

\* What import_user leaves persisted: create_invenio_user commits the
\* session d as it is right after add(user).
import_user_committed(d, ldap_user) == create_invenio_user(d, ldap_user)

\* import_users, up to the loop.
ImportUsersStart ==
    /\ CanStart
    /\ Begin("import_users")
    /\ pc' = "import_users"
    /\ ret' = NoReturn
    /\ ldap_users' = ldap
    /\ imported' = 0
    /\ kept' = <<>>
    /\ log' = {}
    /\ UNCHANGED <<paging, serializer, ldap, tables, update_locals>>

\* Why import_users skips the entry ("" when it does not).
import_users_skips(d, ldap_user) ==
    IF ~has_mail(ldap_user) THEN "does not have an email"
    ELSE IF ldap_user_get_email(ldap_user) = "" THEN "Mail field empty"
    ELSE IF email_exists(d, ldap_user_get_email(ldap_user)) THEN "already imported"
    ELSE ""

\* One iteration of the loop of import_users.
ImportUsersStep ==
    /\ pc = "import_users"
    /\ ldap_users # <<>>
    /\ LET ldap_user == Head(ldap_users)
       IN  IF import_users_skips(db, ldap_user) # ""
           THEN /\ log' = log \cup {logged(import_users_skips(db, ldap_user), ldap_user)}
                /\ UNCHANGED <<tables, imported, created, commit_log>>
           ELSE /\ db' = import_user(db, ldap_user)
                /\ committed' = import_user_committed(db, ldap_user)
                /\ commit_log' = Append(commit_log,
                        [phase |-> "import_users", left |-> Len(ldap_users)])
                /\ imported' = imported + 1
                /\ created' = created \cup
                        {[user_id |-> new_user_id(db), ldap_user |-> ldap_user]}
                /\ log' = log
    /\ ldap_users' = Tail(ldap_users)
    /\ UNCHANGED <<paging, serializer, ldap, pc, op, runs, update_locals, ret, start, kept, matched, prev>>

\* import_users after the loop: the commit, the count printed.
ImportUsersFinish ==
    /\ pc = "import_users"
    /\ ldap_users = <<>>
    /\ db' = db
    /\ commit("import_users", 0)
    /\ pc' = "done"
    /\ ret' = <<imported>>
    /\ UNCHANGED <<paging, serializer, ldap, op, runs, import_locals, update_locals, log,
                   start, kept, matched, created, prev>>


\* ----------------------------------------------------------- update_users

\* update_users up to STEP 1: get_ldap_users, the early return when no entry
\* of the listing has an email, remap_invenio_users.
UpdateUsersStart ==
    /\ CanStart
    /\ Begin("update_users")
    /\ LET fetched == get_ldap_users(ldap)
       IN  /\ ldap_users_count' = fetched.count
           /\ kept' = fetched.map
           /\ log' = fetched.log
           /\ IF fetched.emails = {}
              THEN /\ pc' = "done"
                   /\ ret' = <<0, 0, 0>>
                   /\ ldap_users_map' = fetched.map
                   /\ invenio_users' = <<>>
              ELSE /\ pc' = "updating"
                   /\ ret' = NoReturn
                   /\ ldap_users_map' = fetched.map
                   /\ \E order \in Orders(Len(db.accounts)) :
                         invenio_users' = remap_invenio_users(db, order)
    /\ updated_count' = 0
    /\ added_count' = 0
    /\ new_ldap_users' = <<>>
    /\ UNCHANGED <<paging, serializer, ldap, tables, import_locals>>

\* One iteration of the loop of update_invenio_users_from_ldap.
UpdateStep ==
    /\ pc = "updating"
    /\ invenio_users # <<>>
    /\ LET invenio_user == Head(invenio_users)
           person_id == invenio_user.remote_account_person_id
       IN  /\ ldap_users_map' = map_pop(ldap_users_map, person_id)
           /\ invenio_users' = Tail(invenio_users)
           /\ IF ~map_has(ldap_users_map, person_id)
              THEN UNCHANGED <<tables, pc, updated_count, matched>>
              ELSE LET ldap_user == map_get(ldap_users_map, person_id)
                   IN  IF \/ Cardinality(profiles_of(db, invenio_user.user_id)) # 1
                          \/ invenio_user.user_id \notin 1..Len(db.users)
                       THEN \* .one() raises: the job aborts, the session is lost
                            /\ pc' = "aborted"
                            /\ db' = committed
                            /\ UNCHANGED <<committed, updated_count, matched>>
                       ELSE LET changed == has_changed(db, invenio_user, ldap_user)
                            IN  /\ db' = IF changed
                                         THEN update_invenio_user(db,
                                                  invenio_user.remote_account_id,
                                                  invenio_user.user_id, ldap_user)
                                         ELSE db
                                /\ updated_count' = IF changed THEN updated_count + 1
                                                    ELSE updated_count
                                /\ matched' = matched \cup
                                       {[remote_account_id |-> invenio_user.remote_account_id,
                                         user_id |-> invenio_user.user_id,
                                         ldap_user |-> ldap_user,
                                         has_changed |-> changed]}
                                /\ UNCHANGED <<committed, pc>>
    /\ UNCHANGED <<paging, serializer, ldap, op, runs, import_locals, ldap_users_count, new_ldap_users,
                   added_count, ret, log, start, kept, created, commit_log, prev>>

\* update_invenio_users_from_ldap after the loop (the commit), then STEP 2 of
\* update_users up to the loop of import_new_ldap_users, or the return when
\* no entry is left in the map.
UpdatePhaseFinish ==
    /\ pc = "updating"
    /\ invenio_users = <<>>
    /\ db' = db
    /\ commit("update", 0)
    /\ new_ldap_users' = ldap_users_map
    /\ IF ldap_users_map = <<>>
       THEN /\ pc' = "done"
            /\ ret' = <<ldap_users_count, updated_count, 0>>
       ELSE /\ pc' = "importing"
            /\ ret' = ret
    /\ UNCHANGED <<paging, serializer, ldap, op, runs, import_locals, ldap_users_count, ldap_users_map,
                   invenio_users, updated_count, added_count, log,
                   start, kept, matched, created, prev>>

\* Why import_new_ldap_users skips the entry ("" when it does not).
import_new_skips(d, ldap_user) ==
    IF email_exists(d, ldap_user_get_email(ldap_user))
    THEN "ldap_user_skipped_email_exists_different_person_id"
    ELSE IF user_identity_exists(d, ldap_user_get_uidNumber(ldap_user))
    THEN "ldap_user_skipped_identity_exists_changed_email"
    ELSE ""

\* One iteration of the loop of import_new_ldap_users.
ImportNewStep ==
    /\ pc = "importing"
    /\ new_ldap_users # <<>>
    /\ LET ldap_user == Head(new_ldap_users)
       IN  IF import_new_skips(db, ldap_user) # ""
           THEN /\ log' = log \cup {logged(import_new_skips(db, ldap_user), ldap_user)}
                /\ UNCHANGED <<tables, added_count, created, commit_log>>
           ELSE /\ db' = import_user(db, ldap_user)
                /\ committed' = import_user_committed(db, ldap_user)
                /\ commit_log' = Append(commit_log,
                        [phase |-> "import", left |-> Len(new_ldap_users)])
                /\ added_count' = added_count + 1
                /\ created' = created \cup
                        {[user_id |-> new_user_id(db), ldap_user |-> ldap_user]}
                /\ log' = log
    /\ new_ldap_users' = Tail(new_ldap_users)
    /\ UNCHANGED <<paging, serializer, ldap, pc, op, runs, import_locals, ldap_users_count, ldap_users_map,
                   invenio_users, updated_count, ret, start, kept, matched, prev>>

\* import_new_ldap_users after the loop (the commit) and the return of
\* update_users.
ImportNewFinish ==
    /\ pc = "importing"
    /\ new_ldap_users = <<>>
    /\ db' = db
    /\ commit("import", 0)
    /\ pc' = "done"
    /\ ret' = <<ldap_users_count, updated_count, added_count>>
    /\ UNCHANGED <<paging, serializer, ldap, op, runs, import_locals, update_locals, log,
                   start, kept, matched, created, prev>>

\* ----------------------------------------------------------- delete_users

\* Mutant of delete_users: the raise is gone and the statements after it
\* run; anonymising a user that is not listed removes its profile and its
\* identities.
delete_users_without_raise(d, listing, dry_run) ==
    LET persons == {listing[i].employeeID : i \in 1..Len(listing)}
        gone == {d.accounts[ra].user_id :
                    ra \in {k \in 1..Len(d.accounts) : d.accounts[k].person_id \notin persons}}
    IN  IF listing = <<>>
        THEN [raised |-> FALSE, tables |-> d, ret |-> <<0, 0>>]
        ELSE [raised |-> FALSE,
              tables |-> IF dry_run THEN d
                         ELSE [d EXCEPT !.profiles = {x \in @ : x.user_id \notin gone},
                                        !.identities = {x \in @ : x.id_user \notin gone}],
              ret |-> <<Len(listing), Cardinality(gone)>>]

\* delete_users(dry_run) on the tables d and the listing: it raises
\* NotImplementedError at its first statement.
delete_users(d, listing, dry_run) ==
    [raised |-> TRUE, tables |-> d, ret |-> NoReturn]

DeleteUsers ==
    /\ CanStart
    /\ \E dry_run \in BOOLEAN :
          /\ Begin(IF dry_run THEN "delete_users(dry_run=True)"
                   ELSE "delete_users(dry_run=False)")
          /\ LET r == delete_users(db, ldap, dry_run)
             IN  /\ pc' = IF r.raised THEN "raised" ELSE "done"
                 /\ db' = r.tables
                 /\ committed' = IF r.raised THEN committed ELSE r.tables
                 /\ ret' = r.ret
    /\ kept' = <<>>
    /\ log' = {}
    /\ UNCHANGED <<paging, serializer, ldap, import_locals, update_locals>>

\* ------------------------------------------------------------------ faults

\* Any other fault (directory unavailable, database error) is unhandled and
\* aborts the running job: what the session had not committed is lost.
Fault ==
    /\ pc \in {"import_users", "updating", "importing"}
    /\ pc' = "aborted"
    /\ db' = committed
    /\ UNCHANGED <<paging, serializer, ldap, committed, op, runs, import_locals, update_locals, ret, log,
                   history>>

\* ------------------------------------------------- serializer, methods

\* LiteratureJSONSerializer.transform_record / transform_search_hit up to
\* the loop: the parent's output is taken, its eitems are looked up.
Transform(name) ==
    /\ ser_pc = "idle"
    /\ method' = name
    /\ literature' = parent
    /\ ser_pc' = "loop"
    /\ formatted' = 0
    /\ calls' = <<>>
    /\ UNCHANGED <<parent, sync, paging>>

TransformRecord == Transform("transform_record")

TransformSearchHit == Transform("transform_search_hit")

\* One iteration of the loop over the eitems.
FormatEitem ==
    /\ ser_pc = "loop"
    /\ formatted < Len(eitems_of(literature))
    /\ calls' = Append(calls, eitems_of(literature)[formatted + 1])
    /\ literature' = format_eitem(literature, formatted + 1)
    /\ formatted' = formatted + 1
    /\ UNCHANGED <<parent, method, ser_pc, sync, paging>>

\* return literature / return hit
Return ==
    /\ ser_pc = "loop"
    /\ formatted = Len(eitems_of(literature))
    /\ ser_pc' = "returned"
    /\ UNCHANGED <<parent, literature, method, formatted, calls, sync, paging>>

\* ------------------------------------------- LdapClient.get_primary_accounts

\* ldap.controls.SimplePagedResultsControl.controlType (RFC 2696)
PagedResultsControlType == "1.2.840.113556.1.4.319"

PagedControl(cookie) == [controlType |-> PagedResultsControlType, cookie |-> cookie]

\* A response control of another type.
OtherControl == [controlType |-> "2.16.840.1.113730.3.4.2"]

\* rdata of a response: pairs (dn, attributes).
Pages ==
    { <<>>,
      << <<"dn1", Joe>> >>,
      << <<"dn2", Ann>>, <<"dn1", Joe>> >> }

\* serverctrls of a response.
ServerCtrls ==
    { <<>>,
      <<OtherControl>>,
      <<PagedControl("")>>,
      <<PagedControl("c1")>>,
      <<OtherControl, PagedControl("c2")>>,
      <<PagedControl("c1"), PagedControl("")>>,
      <<PagedControl(""), PagedControl("c2")>> }

IsPagedControl(control) == control.controlType = PagedResultsControlType

\* controls = [control for control in serverctrls if control.controlType == ...]
paged_controls(serverctrls) == SelectSeq(serverctrls, IsPagedControl)

extend_in_front(res, rdata) == [i \in 1..Len(rdata) |-> rdata[i][2]] \o res

\* result.extend([x[1] for x in rdata])
extend(res, rdata) == res \o [i \in 1..Len(rdata) |-> rdata[i][2]]

\* The client before get_primary_accounts is called.
PagingInit ==
    /\ gpa_pc = "idle"
    /\ page_cookie = ""
    /\ result = <<>>
    /\ printed = <<>>
    /\ sent = <<>>
    /\ received = <<>>

\* get_primary_accounts up to the loop.
GetPrimaryAccounts ==
    /\ gpa_pc = "idle"
    /\ page_cookie' = ""
    /\ result' = <<>>
    /\ gpa_pc' = "search"
    /\ UNCHANGED <<printed, sent, received, sync, serializer>>

\* response = self._search_paginated_primary_account(page_control)
SearchPaginatedPrimaryAccount ==
    /\ gpa_pc = "search"
    /\ Len(sent) < MaxPages
    /\ sent' = Append(sent, page_cookie)
    /\ gpa_pc' = "result3"
    /\ UNCHANGED <<page_cookie, result, printed, received, sync, serializer>>

\* The rest of one iteration of the loop: the server's response is read,
\* its entries are added to the result, its controls decide whether the loop
\* goes on.
Result3 ==
    /\ gpa_pc = "result3"
    /\ \E rdata \in Pages, serverctrls \in ServerCtrls :
          LET controls == paged_controls(serverctrls)
          IN  /\ received' = Append(received, [rdata |-> rdata, serverctrls |-> serverctrls])
              /\ result' = extend(result, rdata)
              /\ IF controls = <<>>
                 THEN /\ printed' = Append(printed, "The server ignores RFC 2696 control")
                      /\ gpa_pc' = "returned"
                      /\ UNCHANGED page_cookie
                 ELSE IF controls[1].cookie = ""
                 THEN /\ gpa_pc' = "returned"
                      /\ UNCHANGED <<page_cookie, printed>>
                 ELSE /\ page_cookie' = controls[1].cookie
                      /\ gpa_pc' = "search"
                      /\ UNCHANGED printed
    /\ UNCHANGED <<sent, sync, serializer>>

\* ---------------------------------------------------------- specifications

\* No record is being serialized.
NoRecord == [pid |-> "p", metadata |-> [title |-> "t"], links |-> "l"]

Init == SyncInit(Listings, InitDbs) /\ SerializerInit({NoRecord}) /\ PagingInit

Next ==
    \/ ImportUsersStart
    \/ ImportUsersStep
    \/ ImportUsersFinish
    \/ UpdateUsersStart
    \/ UpdateStep
    \/ UpdatePhaseFinish
    \/ ImportNewStep
    \/ ImportNewFinish
    \/ DeleteUsers
    \/ Fault

\* The synchronisation job: import_users, update_users and delete_users
\* invoked one after the other on a listing and tables.
Spec == Init /\ [][Next]_vars

InitSerializer ==
    SyncInit({<<>>}, {EmptyDb}) /\ SerializerInit(ParentOutputs) /\ PagingInit

NextSerializer ==
    \/ TransformRecord
    \/ TransformSearchHit
    \/ FormatEitem
    \/ Return

\* The serializer: one method called on one output of the parent serializer.
SpecSerializer == InitSerializer /\ [][NextSerializer]_vars

InitPaging ==
    SyncInit({<<>>}, {EmptyDb}) /\ SerializerInit({NoRecord}) /\ PagingInit

NextPaging ==
    \/ GetPrimaryAccounts
    \/ SearchPaginatedPrimaryAccount
    \/ Result3

\* The LDAP client: one call of get_primary_accounts against a server that
\* answers each page request as it likes.
SpecPaging == InitPaging /\ [][NextPaging]_vars



\* ------------------------------------------------------------- properties

\* Some local user of the tables d has the email.
UserWithEmail(d, email) == email \in {d.users[i] : i \in 1..Len(d.users)}

UpdateUsersDone == pc = "done" /\ op = "update_users"
ImportUsersDone == pc = "done" /\ op = "import_users"

\* The LDAP entry differs from / agrees with what the tables d hold for the
\* remote account ra and its user.  An entry without mail, or with an empty
\* one, has no email to compare.
has_email(ldap_user) == has_mail(ldap_user) /\ ldap_user.mail # ""
differs(ldap_user, d, ra) ==
    LET user_id == d.accounts[ra].user_id
    IN  \/ ldap_user.displayName # full_name_of(d, user_id)
        \/ ldap_user.department # d.accounts[ra].department
        \/ has_email(ldap_user) /\ Lower(ldap_user.mail) # d.users[user_id]
agrees(ldap_user, d, ra) ==
    LET user_id == d.accounts[ra].user_id
    IN  /\ \A p \in profiles_of(d, user_id) : p.full_name = ldap_user.displayName
        /\ profiles_of(d, user_id) # {}
        /\ d.accounts[ra].department = ldap_user.department
        /\ has_email(ldap_user) => d.users[user_id] = Lower(ldap_user.mail)

\* The pairs (remote account at the start of the job, listed entry) with the
\* same employee ID.
SamePerson == {x \in (1..Len(start.accounts)) \X (1..Len(ldap)) :
                  start.accounts[x[1]].person_id = ldap[x[2]].employeeID}

\* C1 as stated: when update_users has returned, every remote account agrees
\* with every listed entry of the same employee ID that differed from it, and
\* is counted as updated.
C1_EveryPairUpdated ==
    UpdateUsersDone =>
        \A x \in SamePerson :
            differs(ldap[x[2]], start, x[1]) =>
                /\ agrees(ldap[x[2]], db, x[1])
                /\ ret[2] >= 1

\* C1 amended: when update_users has returned, every remote account that
\* popped an entry out of the employee-ID map (the entry the map kept for its
\* person_id) and differed from it in display name, department or
\* lower-cased email now agrees with that entry in all three, in the session
\* and in the persisted tables; the returned updated count is the number of
\* those remote accounts; each kept entry whose employee ID some remote
\* account carries was popped by exactly one of them.
C1_MatchedPairUpdated ==
    UpdateUsersDone =>
        /\ \A m \in matched :
              /\ start.accounts[m.remote_account_id].person_id = m.ldap_user.employeeID
              /\ map_has(kept, m.ldap_user.employeeID)
              /\ m.ldap_user = map_get(kept, m.ldap_user.employeeID)
              /\ m.has_changed = differs(m.ldap_user, start, m.remote_account_id)
              /\ m.has_changed =>
                    /\ agrees(m.ldap_user, db, m.remote_account_id)
                    /\ agrees(m.ldap_user, committed, m.remote_account_id)
        /\ ret[2] = Cardinality({m \in matched : m.has_changed})
        /\ \A i \in 1..Len(kept) :
              (\E ra \in 1..Len(start.accounts) :
                    start.accounts[ra].person_id = kept[i].employeeID)
              => Cardinality({m \in matched : m.ldap_user = kept[i]}) = 1

\* C1 witness: update_users returned after updating a remote account whose
\* entry differed from it.
C1_Witness ==
    /\ UpdateUsersDone
    /\ \E m \in matched :
          /\ m.has_changed
          /\ start.users[m.user_id] # db.users[m.user_id]
          /\ start.accounts[m.remote_account_id].department
                # db.accounts[m.remote_account_id].department

\* C2: when update_users has returned and the job before it was an
\* update_users that returned too (the listing is the same), the updated
\* count is zero and the tables are as the first run left them.
C2_SecondRunIdempotent ==
    (UpdateUsersDone /\ prev.op = "update_users" /\ prev.pc = "done") =>
        /\ ret[2] = 0
        /\ db = start
        /\ committed = start


\* C2 witness: update_users returned twice in a row.
C2_Witness == UpdateUsersDone /\ prev.op = "update_users" /\ prev.pc = "done"

\* The entries the running job has skipped with one of the given log lines.
skipped(actions) == {l.ldap_user : l \in {x \in log : x.action \in actions}}

\* The listing without the entries that have no mail or an empty one.
WithEmail(listing) == SelectSeq(listing, has_email)

\* C3: no user is created from an entry without mail or with an empty mail;
\* the imported / added count is the number of users created; each such
\* entry is logged as skipped; the other entries are processed as if it
\* were not listed: update_users keeps the employee-ID map the listing
\* without those entries gives, and after import_users every entry with an
\* email has a local user with that email.
C3_NoMailSkipped ==
    /\ \A c \in created : has_email(c.ldap_user)
    /\ Len(db.users) = Len(start.users) + Cardinality(created)
    /\ op = "import_users" =>
          /\ imported = Cardinality(created)
          /\ \A i \in 1..(Len(ldap) - Len(ldap_users)) :
                ~has_email(ldap[i]) =>
                    ldap[i] \in skipped({"does not have an email", "Mail field empty"})
    /\ ImportUsersDone =>
          /\ ret = <<Cardinality(created)>>
          /\ \A i \in 1..Len(ldap) :
                has_email(ldap[i]) => UserWithEmail(db, Lower(ldap[i].mail))
    /\ op = "update_users" =>
          /\ added_count = Cardinality(created)
          /\ kept = get_ldap_users(WithEmail(ldap)).map
          /\ \A i \in 1..Len(ldap) :
                ~has_email(ldap[i]) =>
                    ldap[i] \in skipped({"ldap_user_skipped_missing_email",
                                         "ldap_user_skipped_not_cern_email"})
    /\ UpdateUsersDone => ret[3] = Cardinality(created)

\* C3 witness: a job returned after skipping a first entry without mail (or
\* with an empty one) and creating a user from the entry after it.
C3_Witness ==
    /\ pc = "done"
    /\ Len(ldap) = 2
    /\ ~has_email(ldap[1])
    /\ \E c \in created : c.ldap_user = ldap[2]

\* Each user has at most one remote account and no two remote accounts carry
\* the same person_id.
PersonIdUnique(d) ==
    \A i, j \in 1..Len(d.accounts) :
        (d.accounts[i].user_id = d.accounts[j].user_id
            \/ d.accounts[i].person_id = d.accounts[j].person_id) => i = j

\* C4 as stated: no step of import_users or update_users takes tables in
\* which employee IDs and remote accounts are one to one to tables in which
\* they are not.
C4_PersonIdStaysUnique == [][PersonIdUnique(db) => PersonIdUnique(db')]_vars

\* The step creates users.
CreatesUser == Len(db'.users) > Len(db.users)

\* C5: a step that creates a user creates exactly one, with an email no
\* user had before the step, leaves the users there were as they were and
\* raises the imported / added count by one; a step of either import loop
\* on an entry whose email a local user already has changes no table and no
\* count, logs the skip and goes on to the next entry.
C5_NoDuplicateEmailCreated ==
    [][ /\ CreatesUser =>
            /\ Len(db'.users) = Len(db.users) + 1
            /\ ~UserWithEmail(db, db'.users[Len(db'.users)])
            /\ SubSeq(db'.users, 1, Len(db.users)) = db.users
            /\ imported' + added_count' = imported + added_count + 1
        /\ (/\ pc = "import_users" /\ pc' = pc /\ ldap_users # <<>>
            /\ has_email(Head(ldap_users))
            /\ UserWithEmail(db, Lower(Head(ldap_users).mail))) =>
                /\ UNCHANGED <<tables, imported>>
                /\ Head(ldap_users) \in skipped({"already imported"})'
                /\ ldap_users' = Tail(ldap_users)
        /\ (/\ pc = "importing" /\ pc' = pc /\ new_ldap_users # <<>>
            /\ UserWithEmail(db, Lower(Head(new_ldap_users).mail))) =>
                /\ UNCHANGED <<tables, added_count>>
                /\ Head(new_ldap_users) \in
                      skipped({"ldap_user_skipped_email_exists_different_person_id"})'
                /\ new_ldap_users' = Tail(new_ldap_users)
      ]_vars

\* C5 witness: a job returned after skipping a first entry whose email a
\* local user already had and creating a user from the entry after it.
C5_Witness ==
    /\ pc = "done"
    /\ Len(ldap) = 2
    /\ ldap[1] \in skipped({"already imported",
                            "ldap_user_skipped_email_exists_different_person_id"})
    /\ UserWithEmail(start, Lower(ldap[1].mail))
    /\ \E c \in created : c.ldap_user = ldap[2]

\* C6 as stated: a step of the import phase of update_users on an entry whose
\* uidNumber is the id of an identity record there already is creates
\* nothing and counts nothing.
C6_ExistingIdentitySkipped ==
    [][ (/\ pc = "importing" /\ new_ldap_users # <<>>
         /\ \E x \in db.identities : x.id = Head(new_ldap_users).uidNumber) =>
            /\ ~CreatesUser
            /\ db'.identities \subseteq db.identities
            /\ added_count' = added_count
      ]_vars


\* Every user, profile, identity and remote account of d is still in e.
Preserved(d, e) ==
    /\ Len(e.users) >= Len(d.users)
    /\ {x.user_id : x \in d.profiles} \subseteq {x.user_id : x \in e.profiles}
    /\ d.identities \subseteq e.identities
    /\ Len(e.accounts) >= Len(d.accounts)
    /\ \A i \in 1..Len(d.accounts) :
          /\ e.accounts[i].user_id = d.accounts[i].user_id
          /\ e.accounts[i].person_id = d.accounts[i].person_id

\* The step is a call of delete_users.
CallsDeleteUsers ==
    /\ runs' = runs + 1
    /\ op' \in {"delete_users(dry_run=True)", "delete_users(dry_run=False)"}

\* C7: no step of import_users, update_users or delete_users removes a
\* persisted user, profile, identity or remote account, nor one the session
\* holds unless the job aborts and the session is lost; a call of
\* delete_users ends raising, with the tables as they were and nothing
\* returned.
C7_NothingDeleted ==
    [][ /\ Preserved(committed, committed')
        /\ pc' # "aborted" => Preserved(db, db')
        /\ CallsDeleteUsers =>
              /\ pc' = "raised"
              /\ ret' = NoReturn
              /\ UNCHANGED <<ldap, tables>>
      ]_vars

\* C7 witness: delete_users(dry_run=False) has raised after update_users
\* returned, with users in the tables, and the tables are as it found them.
C7_Witness ==
    /\ pc = "raised"
    /\ op = "delete_users(dry_run=False)"
    /\ prev.op = "update_users"
    /\ prev.pc = "done"
    /\ committed.users # <<>>
    /\ committed = start

\* The entries of the employee-ID map that no remote account matched and
\* that import_new_ldap_users did not skip.
Arrivals ==
    {u \in {kept[i] : i \in 1..Len(kept)} :
        /\ \A ra \in 1..Len(start.accounts) : start.accounts[ra].person_id # u.employeeID
        /\ u \notin skipped({"ldap_user_skipped_email_exists_different_person_id",
                             "ldap_user_skipped_identity_exists_changed_email"})}

\* The tables d hold, for the user user_id, the records import_user makes
\* from the entry: the email, one identity, one profile, one remote account.
inserted(d, user_id, u) ==
    /\ user_id \in 1..Len(d.users)
    /\ d.users[user_id] = Lower(u.mail)
    /\ {x \in d.identities : x.id_user = user_id}
          = {[id |-> u.uidNumber, id_user |-> user_id]}
    /\ profiles_of(d, user_id) = {[user_id |-> user_id, full_name |-> u.displayName]}
    /\ \E ra \in 1..Len(d.accounts) :
          /\ d.accounts[ra] = [user_id |-> user_id, person_id |-> u.employeeID,
                               department |-> u.department]
          /\ \A other \in 1..Len(d.accounts) :
                d.accounts[other].user_id = user_id => other = ra

\* C9: when update_users has returned, the users it created are one for
\* each entry of the employee-ID map that matched no remote account and was
\* not skipped, each a new user with the entry's lower-cased mail, one
\* identity with its uidNumber, one profile with its display name and one
\* remote account with its employeeID and department, in the session and
\* persisted; the returned added count is the number of users created.
C9_ArrivalsInserted ==
    UpdateUsersDone =>
        /\ {c.ldap_user : c \in created} = Arrivals
        /\ \A c, e \in created : c.ldap_user = e.ldap_user => c = e
        /\ \A c \in created :
              /\ c.user_id > Len(start.users)
              /\ inserted(db, c.user_id, c.ldap_user)
              /\ inserted(committed, c.user_id, c.ldap_user)
        /\ ret[3] = Cardinality(created)
        /\ Len(db.users) = Len(start.users) + Cardinality(created)

\* C9 witness: update_users returned after creating users from two entries.
C9_Witness == UpdateUsersDone /\ Cardinality(created) = 2 /\ ret[3] = 2

\* The commits of the running job issued in the given phase.
commits_of(phase) == SelectSeq(commit_log, LAMBDA c : c.phase = phase)

HitsOf(l) ==
    IF "eitems" \in DOMAIN l.metadata
    THEN IF "hits" \in DOMAIN l.metadata.eitems THEN l.metadata.eitems.hits ELSE <<>>
    ELSE <<>>

\* C8: when transform_record or transform_search_hit has returned, the
\* helper has been called once for each eitem of the parent's output, in
\* order and on the eitem as the parent gave it, so never when the output
\* has no eitems key, no hits or an empty list, and then the result is the
\* parent's output; with eitems, each one is what the helper makes of it and
\* the result with the parent's hits put back is the parent's output.
C8_OnlyEitemsTouched ==
    /\ Len(calls) <= Len(HitsOf(parent))
    /\ ser_pc = "returned" =>
          /\ calls = HitsOf(parent)
          /\ HitsOf(parent) = <<>> => literature = parent
          /\ HitsOf(parent) # <<>> =>
                /\ [literature EXCEPT !.metadata.eitems.hits = HitsOf(parent)] = parent
                /\ Len(HitsOf(literature)) = Len(HitsOf(parent))
                /\ \A i \in 1..Len(HitsOf(parent)) :
                      HitsOf(literature)[i] = format_login_required_urls(HitsOf(parent)[i])

\* C8 witness: a method returned after the helper rewrote the URLs of two
\* eitems.
C8_Witness ==
    /\ ser_pc = "returned"
    /\ Len(calls) = 2
    /\ \A i \in 1..2 : HitsOf(literature)[i] # HitsOf(parent)[i]

\* The positions of the paged-results controls among a response's controls.
PagedAt(response) ==
    {i \in 1..Len(response.serverctrls) :
        response.serverctrls[i].controlType = PagedResultsControlType}

\* The cookie a response carries: that of its first paged-results control,
\* empty when it has none.
CookieOf(response) ==
    IF PagedAt(response) = {} THEN ""
    ELSE response.serverctrls[CHOOSE i \in PagedAt(response) :
                                  \A j \in PagedAt(response) : i <= j].cookie

\* The response carries no paged-results control or an empty cookie.
LastPage(response) == CookieOf(response) = ""

\* The entries of the pages of the responses, in order.
RECURSIVE EntriesOf(_)
EntriesOf(responses) ==
    IF responses = <<>> THEN <<>>
    ELSE EntriesOf(SubSeq(responses, 1, Len(responses) - 1))
         \o [i \in 1..Len(responses[Len(responses)].rdata) |->
                responses[Len(responses)].rdata[i][2]]

\* C11: get_primary_accounts sends its first page request with an empty
\* cookie and every later one with the cookie of the response before it; no
\* response but the last received carries no paged-results control or an
\* empty cookie; the call has returned exactly when the last response
\* received is such a one, and is otherwise still in its loop, one request
\* ahead of the responses at most; the result is at every moment, and so
\* when it is returned, the entries of all the pages received, in order, the
\* last page included.
C11_PagedRetrieval ==
    /\ sent # <<>> => sent[1] = ""
    /\ \A k \in 2..Len(sent) : sent[k] = CookieOf(received[k - 1])
    /\ \A k \in 1..(Len(received) - 1) : ~LastPage(received[k])
    /\ (gpa_pc = "returned") <=>
           (received # <<>> /\ LastPage(received[Len(received)]))
    /\ gpa_pc \in {"idle", "search", "returned"} => Len(sent) = Len(received)
    /\ gpa_pc = "result3" => Len(sent) = Len(received) + 1
    /\ gpa_pc # "idle" => result = EntriesOf(received)

\* C11 witness: the call returned after three pages, the second requested
\* with the cookie found behind a control of another type, the last page
\* not empty and closed by an empty cookie.
C11_Witness ==
    /\ gpa_pc = "returned"
    /\ Len(received) = 3
    /\ received[1].serverctrls = <<OtherControl, PagedControl("c2")>>
    /\ sent = <<"", "c2", "c1">>
    /\ received[3].rdata # <<>>
    /\ received[3].serverctrls = <<PagedControl(""), PagedControl("c2")>>
    /\ Len(result) = 4

\* No two users of the tables d share an email.
EmailUnique(d) ==
    \A i, j \in 1..Len(d.users) : d.users[i] = d.users[j] => i = j

\* C12 as stated: when update_users is started on tables where no two users
\* share an email, no two users share an email in any state of the run or
\* after it, neither in the session nor in what has been committed.  The
\* runs looked at are those started on tables in which, besides, employee
\* IDs and remote accounts are one to one.
C12_EmailStaysUnique ==
    (op = "update_users" /\ EmailUnique(start) /\ PersonIdUnique(start)) =>
        (EmailUnique(db) /\ EmailUnique(committed))

\* C12, the failing run: update_users, started on the two patrons Joe (email
\* a) and Ann (email b) with a listing in which Joe's mail is B and Ann is
\* absent, has returned and two users hold the email b.
C12_Witness ==
    /\ UpdateUsersDone
    /\ start = import_user(import_user(EmptyDb, Joe), Ann)
    /\ ldap = <<[Joe EXCEPT !.mail = "B"]>>
    /\ committed.users = <<"b", "b">>
    /\ ret[2] = 1


====
